---- MODULE Spec2Model ----
(***************************************************************************)
(* Model of enstaller: the enpkg orchestrator (enstaller/enpkg.py, main)   *)
(* and the status engine of enstaller/resource.py (Resources).             *)
(***************************************************************************)
EXTENDS Integers, Sequences, FiniteSets, TLC

VARIABLES
    disk,         \* location -> set of egg filenames installed there (egginst's view)
    prefix,       \* the install prefix: "sys" when prefix == sys.prefix
    writable,     \* whether a file can be written into the prefix
    pc,           \* position of main()
    opts,         \* parsed options: force, forceall, dry_run, remove
    dists,        \* result of get_dists (install order), <<>> before
    sys_inst,     \* main's local sys_inst
    prefix_inst,  \* main's local prefix_inst
    order,        \* iteration order of the set prefix_inst (a sequence)
    exclude,      \* main's local exclude
    i,            \* index of the loop in progress
    acts,         \* every fetch/remove/install the loops acted on, in order
    log,          \* what pprint_fn_action printed
    calls,        \* calls of the external primitives (fetch_dist, egginst)
    exit,         \* <<status>> once the process has ended, <<>> before
    disk0,        \* the installed sets when the run started
    \* ---- Resources (resource.py)
    enst_cnames,        \* what enst.get_installed_cnames() returns (as a set)
    enst_info,          \* cname -> egg_name of enst.get_installed_info, NoEgg for None
    chain_groups,       \* enst.chain.groups: cname -> list of distributions
    _installed_cnames,  \* cache attribute: <<>> for None, <<list>> otherwise
    _status,            \* cache attribute: <<>> for None, <<dict>> otherwise
    _installed,         \* cache attribute: <<>> for None, <<set>> otherwise
    ret,                \* the method last called and what it returned, <<>> for None
    raised,             \* the exception the last call ended with, "" for none
    \* ---- the catalog and its loading (resource.py, load_index)
    server,             \* what the index server answers: root index and product indices
    lpc,                \* position of load_index: "init", "loading", "done"
    todo,               \* products of the root index still to add
    failed_index_urls,  \* load_index's local list
    index,              \* self.index: the products added
    chain_repos,        \* enst.chain.repos
    chain_index,        \* enst.chain.index: distribution -> spec
    http,               \* the last _read_product_index: what it did on its connections, how it ended
    message             \* the argument of the exception raised

evars == <<disk, prefix, writable, pc, opts, dists, sys_inst, prefix_inst,
           order, exclude, i, acts, log, calls, exit, disk0>>

rvars == <<enst_cnames, enst_info, chain_groups, _installed_cnames, _status,
           _installed, ret, raised>>

lvars == <<server, lpc, todo, failed_index_urls, index, chain_repos,
           chain_index, http, message>>

vars == <<evars, rvars, lvars>>

None == "None"

\* ---------------------------------------------------------------- bounds
MaxDists == 2

\* ------------------------------------------------------ eggs and names
\* An egg filename "<name>-<version>-<build>.egg", split into its parts.
Eggs == { [name |-> "A", version |-> "1", build |-> 1],
          [name |-> "a", version |-> "2", build |-> 1],
          [name |-> "b", version |-> "1", build |-> 1] }

Repos == {"repo/"}

Locs == {"sys", "other"}

\* utils.cname_eggname: the lower-cased name part of an egg filename.
cname_eggname(fn) ==
    CASE fn.name = "A" -> "a"
      [] OTHER -> fn.name

\* indexed_repo.filename_dist: the filename part of a distribution <<repo, fn>>.
filename_dist(dist) == dist[2]

Dists == Repos \X Eggs

RECURSIVE SeqsUpTo(_, _)
SeqsUpTo(S, n) ==
    IF n = 0 THEN {<<>>}
    ELSE LET shorter == SeqsUpTo(S, n - 1)
         IN  shorter \cup {Append(s, x) : s \in {t \in shorter : Len(t) = n - 1}, x \in S}

\* What Chain.install_order may return: a non-empty list of distributions.
DistLists == SeqsUpTo(Dists, MaxDists) \ {<<>>}

\* What Chain.install_order returns: None (found is FALSE) or a list.
InstallOrders ==
    {[found |-> FALSE, list |-> <<>>]} \cup {[found |-> TRUE, list |-> l] : l \in DistLists}

\* All the orders in which a set can be iterated.
RECURSIVE Perms(_)
Perms(S) ==
    IF S = {} THEN {<<>>}
    ELSE UNION { {<<x>> \o p : p \in Perms(S \ {x})} : x \in S }

\* Requirements given to --remove: name, optional version, optional build.
\* (A version that was not given is "", a build that was not given is 0.)
Reqs == [name : {"a", "b"}, version : {"", "1", "2"}, build : 0..2]

Opts == [force : BOOLEAN, forceall : BOOLEAN, dry_run : BOOLEAN, remove : BOOLEAN]

\* The dry_run option ignored.
SuppressedMut(o) == FALSE

\* "if opts.dry_run: continue" (main) and "if dry_run: return" (remove_req):
\* the side effect that follows is not carried out.
Suppressed(o) == o.dry_run

\* egginst.get_installed(location)
egginst_get_installed(loc) == disk[loc]

\* ------------------------------------------------------------ primitives
\* pprint_fn_action(fn, action)
Printed(fn, action) == [action |-> action, fn |-> fn]

\* call_egginst(['--remove', '--prefix', prefix, fn]) and
\* call_egginst(['--prefix', prefix, path]): the effect on the installed set.
EgginstRemove(d, loc, fn) == [d EXCEPT ![loc] = @ \ {fn}]
EgginstInstall(d, loc, fn) == [d EXCEPT ![loc] = @ \cup {fn}]

\* ------------------------------------------------- Resources: the data
\* The canonical names known to the Enstaller object or to the chain.
CNames == {"acme", "beta"}

\* No egg: the '' a defaultdict(str) gives, the None of get_dist.
NoEgg == [name |-> "", version |-> "", build |-> 0]

\* The longest group (list of distributions of one cname) of the chain.
MaxGroup == 1

\* No distribution: the None of get_dist.
NoDist == <<"", NoEgg>>

\* The eggs a repository may offer for a cname; verlib does not accept the
\* version of the last one.
CatalogEggs(c) == { [name |-> c, version |-> "1.9", build |-> 1],
                    [name |-> c, version |-> "1.9", build |-> 2],
                    [name |-> c, version |-> "1.10", build |-> 1],
                    [name |-> c, version |-> "1.x", build |-> 1] }

\* The distributions (repository + filename) of a cname.
CatalogDists(c) == {<<"repo/", fn>> : fn \in CatalogEggs(c)}

\* The eggs that may be installed for a cname: those, and one whose filename
\* has no version and build part ("<name>.egg").
InstalledEggs(c) == CatalogEggs(c) \cup { [name |-> c, version |-> "", build |-> 0] }

\* No Resources object is in use (the enpkg script does not create one).
ResourcesIdle ==
    /\ enst_cnames = {}
    /\ enst_info = [c \in CNames |-> NoEgg]
    /\ chain_groups = [c \in CNames |-> <<>>]
    /\ _installed_cnames = <<>>
    /\ _status = <<>>
    /\ _installed = <<>>
    /\ ret = <<>>
    /\ raised = ""

\* A dict without keys.
EmptyDict == [k \in {} |-> ""]

\* An index without keys: {}.
EmptyIndex == [platform |-> "", egg_repos |-> <<>>, has_eggs |-> FALSE, eggs |-> {}]

\* No call of _read_product_index yet.
NoRead == [product |-> "", events |-> <<>>, raised |-> "", source |-> "",
           content |-> EmptyIndex]

\* No index server is asked; the catalog is as Resources.__init__ leaves it
\* without urls and index_root.
LoaderIdle ==
    /\ server = [root |-> "ok", products |-> <<>>, sub |-> EmptyDict]
    /\ lpc = "init"
    /\ todo = <<>>
    /\ failed_index_urls = <<>>
    /\ index = <<>>
    /\ chain_repos = <<>>
    /\ chain_index = EmptyDict
    /\ http = NoRead
    /\ message = <<>>

\* ------------------------------------------------------------------ Init
Init ==
    /\ ResourcesIdle
    /\ LoaderIdle
    /\ prefix \in Locs
    /\ disk \in [Locs -> SUBSET Eggs]
    /\ (prefix = "sys" => disk["other"] = {})
    /\ writable \in BOOLEAN
    /\ pc = "main"
    /\ opts = None
    /\ dists = <<>>
    /\ sys_inst = {}
    /\ prefix_inst = {}
    /\ order = <<>>
    /\ exclude = {}
    /\ i = 0
    /\ acts = <<>>
    /\ log = <<>>
    /\ calls = <<>>
    /\ exit = <<>>
    /\ disk0 = disk

\* main, lines 216-271: the options are parsed and a requirement is given.
Main ==
    /\ pc = "main"
    /\ \E o \in Opts : opts' = o
    /\ pc' = "check_write"
    /\ UNCHANGED <<disk, prefix, writable, dists, sys_inst, prefix_inst, order,
                   exclude, i, acts, log, calls, exit, disk0>>
    /\ UNCHANGED <<rvars, lvars>>

\* check_write that reports the failure but does not exit.
check_writeMut ==
    /\ pc = "check_write"
    /\ pc' = IF opts.remove THEN "remove_req" ELSE "get_dists"
    /\ UNCHANGED <<disk, prefix, writable, opts, dists, sys_inst, prefix_inst,
                   order, exclude, i, acts, log, calls, exit, disk0>>
    /\ UNCHANGED <<rvars, lvars>>

\* check_write(prefix): sys.exit(1) when the file cannot be written.
check_write ==
    /\ pc = "check_write"
    /\ IF ~writable
       THEN /\ pc' = "exit"
            /\ exit' = <<1>>
       ELSE /\ pc' = IF opts.remove THEN "remove_req" ELSE "get_dists"
            /\ exit' = exit
    /\ UNCHANGED <<disk, prefix, writable, opts, dists, sys_inst, prefix_inst,
                   order, exclude, i, acts, log, calls, disk0>>
    /\ UNCHANGED <<rvars, lvars>>

\* The first installed egg, in iteration order, whose cname is the
\* requirement's name: its position, or 0 (the for loop's else clause).
FirstMatch(seq, name) ==
    IF \E k \in 1..Len(seq) : cname_eggname(seq[k]) = name
    THEN CHOOSE k \in 1..Len(seq) :
            /\ cname_eggname(seq[k]) = name
            /\ \A m \in 1..(k - 1) : cname_eggname(seq[m]) # name
    ELSE 0

\* remove_req: "Version mismatch" for the egg found.
VersionMismatch(req, fn) ==
    /\ req.version # ""
    /\ \/ req.version # fn.version
       \/ (req.build # 0 /\ req.build # fn.build)

\* remove_req(req, prefix, opts.dry_run), then main returns.
remove_req ==
    /\ pc = "remove_req"
    /\ \E req \in Reqs, seq \in Perms(egginst_get_installed(prefix)) :
         LET k == FirstMatch(seq, req.name) IN
         IF k = 0 \/ VersionMismatch(req, seq[k])
         THEN UNCHANGED <<disk, acts, log, calls>>
         ELSE /\ acts' = Append(acts, [kind |-> "remove", fn |-> seq[k], by |-> 0])
              /\ log' = Append(log, Printed(seq[k], "removing"))
              /\ IF Suppressed(opts)
                 THEN UNCHANGED <<disk, calls>>
                 ELSE /\ calls' = Append(calls, [prim |-> "remove", fn |-> seq[k]])
                      /\ disk' = EgginstRemove(disk, prefix, seq[k])
    /\ pc' = "done"
    /\ UNCHANGED <<prefix, writable, opts, dists, sys_inst, prefix_inst, order,
                   exclude, i, exit, disk0>>
    /\ UNCHANGED <<rvars, lvars>>

\* get_dists(c, req, opts): sys.exit(0) when install_order returns None.
get_dists ==
    /\ pc = "get_dists"
    /\ \E r \in InstallOrders :
         /\ dists' = r.list
         /\ IF ~r.found
            THEN /\ pc' = "exit"
                 /\ exit' = <<0>>
            ELSE /\ pc' = "installed"
                 /\ exit' = exit
    /\ UNCHANGED <<disk, prefix, writable, opts, sys_inst, prefix_inst, order,
                   exclude, i, acts, log, calls, disk0>>
    /\ UNCHANGED <<rvars, lvars>>

\* main, lines 286-291: the eggs which are excluded from being installed.
Exclude(all_inst, o, ds) ==
    IF o.force THEN all_inst \ {filename_dist(ds[Len(ds)])}
    ELSE IF o.forceall THEN {}
    ELSE all_inst

\* main, lines 279-291: the installed sets and exclude.
Installed ==
    /\ pc = "installed"
    /\ LET s == egginst_get_installed("sys")
           p == IF prefix = "sys" THEN s ELSE egginst_get_installed(prefix)
       IN  /\ sys_inst' = s
           /\ prefix_inst' = p
           /\ order' \in Perms(p)
           /\ exclude' = Exclude(s \cup p, opts, dists)
    /\ pc' = "fetch"
    /\ i' = 1
    /\ UNCHANGED <<disk, prefix, writable, opts, dists, acts, log, calls, exit, disk0>>
    /\ UNCHANGED <<rvars, lvars>>

\* The install loop placed before the removal loop.
NextPhaseMut(phase) ==
    CASE phase = "fetch" -> "install"
      [] phase = "install" -> "remove"
      [] phase = "remove" -> "done"

\* main, lines 293-325: the phase that follows a phase of main.
NextPhase(phase) ==
    CASE phase = "fetch" -> "remove"
      [] phase = "remove" -> "install"
      [] phase = "install" -> "done"

\* iter_dists_excl without its test of exclude_fn.
YieldedMut(dist, exclude_fn) == TRUE

\* iter_dists_excl: whether the loop body runs for this distribution.
Yielded(dist, exclude_fn) == filename_dist(dist) \notin exclude_fn

\* main, lines 296-301: one iteration of the fetch loop.
Fetch ==
    /\ pc = "fetch"
    /\ LET dist == dists[i]
           fn == filename_dist(dist)
       IN  IF Yielded(dist, exclude)
           THEN /\ acts' = Append(acts, [kind |-> "fetch", fn |-> fn, by |-> i])
                /\ IF Suppressed(opts)
                   THEN /\ log' = Append(log, Printed(fn, "downloading"))
                        /\ calls' = calls
                   ELSE /\ calls' = Append(calls, [prim |-> "fetch", fn |-> fn])
                        /\ log' = log
           ELSE UNCHANGED <<acts, log, calls>>
    /\ IF i < Len(dists)
       THEN /\ i' = i + 1
            /\ pc' = pc
       ELSE /\ i' = 1
            /\ pc' = NextPhase(pc)
    /\ UNCHANGED <<disk, prefix, writable, opts, dists, sys_inst, prefix_inst,
                   order, exclude, exit, disk0>>
    /\ UNCHANGED <<rvars, lvars>>

\* main, lines 311-317: the installed eggs removed for the target fn, in
\* the iteration order of prefix_inst.
ToRemove(fn, seq) ==
    SelectSeq(seq, LAMBDA fn_inst : cname_eggname(fn) = cname_eggname(fn_inst))

\* The removal loop without its "already installed" test.
SkipRemoveMut(fn, s_inst) == FALSE

\* main, lines 306-309: the target is skipped by the removal loop.
SkipRemove(fn, s_inst) == fn \in s_inst

RECURSIVE RemoveAll(_, _, _)
RemoveAll(d, loc, seq) ==
    IF seq = <<>> THEN d
    ELSE RemoveAll(EgginstRemove(d, loc, Head(seq)), loc, Tail(seq))

\* The removal loop over dists instead of dists[::-1].
ReverseOrderMut(ds) == [k \in 1..Len(ds) |-> k]

\* main, line 304: the positions of dists in the order dists[::-1] visits them.
ReverseOrder(ds) == [k \in 1..Len(ds) |-> Len(ds) + 1 - k]

\* main, lines 304-317: one iteration of the removal loop (reverse order).
Remove ==
    /\ pc = "remove"
    /\ LET t == ReverseOrder(dists)[i]
           fn == filename_dist(dists[t])
           rm == IF SkipRemove(fn, sys_inst) THEN <<>> ELSE ToRemove(fn, order)
       IN  /\ acts' = acts \o [k \in 1..Len(rm) |->
                                 [kind |-> "remove", fn |-> rm[k], by |-> t]]
           /\ log' = log \o [k \in 1..Len(rm) |-> Printed(rm[k], "removing")]
           /\ IF Suppressed(opts)
              THEN UNCHANGED <<calls, disk>>
              ELSE /\ calls' = calls \o [k \in 1..Len(rm) |->
                                           [prim |-> "remove", fn |-> rm[k]]]
                   /\ disk' = RemoveAll(disk, prefix, rm)
    /\ IF i < Len(dists)
       THEN /\ i' = i + 1
            /\ pc' = pc
       ELSE /\ i' = 1
            /\ pc' = NextPhase(pc)
    /\ UNCHANGED <<prefix, writable, opts, dists, sys_inst, prefix_inst, order,
                   exclude, exit, disk0>>
    /\ UNCHANGED <<rvars, lvars>>

\* main, lines 320-325: one iteration of the install loop.
Install ==
    /\ pc = "install"
    /\ LET dist == dists[i]
           fn == filename_dist(dist)
       IN  IF Yielded(dist, exclude)
           THEN /\ acts' = Append(acts, [kind |-> "install", fn |-> fn, by |-> i])
                /\ log' = Append(log, Printed(fn, "installing"))
                /\ IF Suppressed(opts)
                   THEN UNCHANGED <<calls, disk>>
                   ELSE /\ calls' = Append(calls, [prim |-> "install", fn |-> fn])
                        /\ disk' = EgginstInstall(disk, prefix, fn)
           ELSE UNCHANGED <<acts, log, calls, disk>>
    /\ IF i < Len(dists)
       THEN /\ i' = i + 1
            /\ pc' = pc
       ELSE /\ i' = 1
            /\ pc' = NextPhase(pc)
    /\ UNCHANGED <<prefix, writable, opts, dists, sys_inst, prefix_inst, order,
                   exclude, exit, disk0>>
    /\ UNCHANGED <<rvars, lvars>>

\* main returns (line 275 or the end of the function): exit status 0.
Return ==
    /\ pc = "done"
    /\ pc' = "exit"
    /\ exit' = <<0>>
    /\ UNCHANGED <<disk, prefix, writable, opts, dists, sys_inst, prefix_inst,
                   order, exclude, i, acts, log, calls, disk0>>
    /\ UNCHANGED <<rvars, lvars>>

Next ==
    \/ Main
    \/ check_write
    \/ remove_req
    \/ get_dists
    \/ Installed
    \/ Fetch
    \/ Remove
    \/ Install
    \/ Return

Spec == Init /\ [][Next]_vars

\* ------------------------------------------------------------------------
\* Resources (resource.py): the status engine
\* ------------------------------------------------------------------------

\* enpkg is not running.
EnpkgIdle ==
    /\ prefix = "sys"
    /\ disk = [l \in Locs |-> {}]
    /\ writable = TRUE
    /\ pc = "idle"
    /\ opts = None
    /\ dists = <<>>
    /\ sys_inst = {}
    /\ prefix_inst = {}
    /\ order = <<>>
    /\ exclude = {}
    /\ i = 0
    /\ acts = <<>>
    /\ log = <<>>
    /\ calls = <<>>
    /\ exit = <<>>
    /\ disk0 = disk

\* Resources.__init__, lines 51-54, with an Enstaller that has some eggs
\* installed and a chain that has been loaded.
InitStatus ==
    /\ EnpkgIdle
    /\ LoaderIdle
    /\ enst_cnames \in SUBSET CNames
    /\ enst_info \in [CNames -> UNION {InstalledEggs(c) : c \in CNames} \cup {NoEgg}]
    /\ \A c \in CNames :
          /\ enst_info[c] # NoEgg => (c \in enst_cnames /\ enst_info[c] \in InstalledEggs(c))
    /\ chain_groups \in [CNames -> UNION {SeqsUpTo(CatalogDists(c), MaxGroup) : c \in CNames}]
    /\ \A c \in CNames : chain_groups[c] \in SeqsUpTo(CatalogDists(c), MaxGroup)
    /\ _installed_cnames = <<>>
    /\ _status = <<>>
    /\ _installed = <<>>
    /\ ret = <<>>
    /\ raised = ""

\* Resources.clear_cache
clear_cache ==
    /\ _installed_cnames' = <<>>
    /\ _status' = <<>>
    /\ _installed' = <<>>
    /\ ret' = <<>>
    /\ UNCHANGED <<enst_cnames, enst_info, chain_groups>>
    /\ raised' = ""
    /\ UNCHANGED <<evars, lvars>>

\* verlib accepts the version string (no IrrationalVersionError).
Rational(v) == v \in {"1.9", "1.10"}

\* utils.comparable_version: the version as a tuple of numbers.
comparable_version(v) ==
    CASE v = "1.9" -> <<1, 9>>
      [] v = "1.10" -> <<1, 10>>

\* dist_naming.split_eggname accepts the filename (no AssertionError): it
\* has a name, a version and a build part.
WellFormed(fn) == fn.version # ""

\* dist_naming.split_dist: the repository and the filename of a distribution.
split_dist(dist) == dist

\* vb_egg (get_status, lines 225-232): <<>> for None, else <<(version, build)>>.
vb_egg(fn) ==
    IF WellFormed(fn) /\ Rational(fn.version)
    THEN << comparable_version(fn.version) \o <<fn.build>> >>
    ELSE <<>>

\* x >= y for two tuples of numbers of the same length.
RECURSIVE TupleGE(_, _)
TupleGE(x, y) ==
    IF x = <<>> THEN TRUE
    ELSE IF Head(x) # Head(y) THEN Head(x) > Head(y)
    ELSE TupleGE(Tail(x), Tail(y))

\* Python 2's x >= y for the results of vb_egg: None is below every tuple.
PyGE(x, y) ==
    IF x = <<>> THEN y = <<>>
    ELSE IF y = <<>> THEN TRUE
    ELSE TupleGE(x[1], y[1])

\* The keys of enst.chain.groups.
GroupKeys(groups) == {c \in CNames : groups[c] # <<>>}

\* The best (version, build) of a list of distributions, those whose version
\* cannot be compared left out; NoDist for none.
RECURSIVE BestOf(_)
BestOf(seq) ==
    IF seq = <<>> THEN NoDist
    ELSE LET rest == BestOf(Tail(seq))
             head == Head(seq)
         IN  IF vb_egg(head[2]) = <<>> THEN rest
             ELSE IF rest = NoDist \/ ~PyGE(vb_egg(rest[2]), vb_egg(head[2]))
                  THEN head ELSE rest

\* enst.chain.get_dist(Req(cname)): the best distribution of the group.
get_dist(groups, c) == BestOf(groups[c])

\* enst.get_installed_info(cname)[0][1]: the egg_name of the info, NoEgg for None.
get_installed_info(c) == enst_info[c]

\* d = defaultdict(str)
Blank == [egg_name |-> NoEgg, a_egg |-> NoEgg, a_ver |-> <<>>, status |-> ""]

\* res[cname] = d
Put(res, c, d) == [k \in (DOMAIN res) \cup {c} |-> IF k = c THEN d ELSE res[k]]

\* The loop over the groups giving up at a version it cannot compare.
AvailableLoopMut(res, groups) ==
    LET bad == \E c \in CNames : \E n \in DOMAIN groups[c] :
                   vb_egg(groups[c][n][2]) = <<>>
        hit == IF bad THEN {}
               ELSE {c \in GroupKeys(groups) : get_dist(groups, c) # NoDist}
    IN  [k \in (DOMAIN res) \cup hit |->
            IF k \in hit
            THEN LET fn == split_dist(get_dist(groups, k))[2]
                 IN  [(IF k \in DOMAIN res THEN res[k] ELSE Blank) EXCEPT
                          !.a_egg = fn,
                          !.a_ver = <<fn.version, fn.build>>]
            ELSE res[k]]

\* get_status, lines 212-223: the loop over the groups of the chain.
AvailableLoop(res, groups) ==
    LET hit == {c \in GroupKeys(groups) : get_dist(groups, c) # NoDist}
    IN  [k \in (DOMAIN res) \cup hit |->
            IF k \in hit
            THEN LET fn == split_dist(get_dist(groups, k))[2]
                 IN  [(IF k \in DOMAIN res THEN res[k] ELSE Blank) EXCEPT
                          !.a_egg = fn,
                          !.a_ver = <<fn.version, fn.build>>]
            ELSE res[k]]

\* get_status, lines 204-223: the loop over the installed cnames, with the
\* loop over the groups in its body.
RECURSIVE InstalledLoop(_, _, _)
InstalledLoop(res, cnames, groups) ==
    IF cnames = <<>> THEN res
    ELSE LET cname == Head(cnames)
             info == get_installed_info(cname)
         IN  IF info = NoEgg
             THEN InstalledLoop(res, Tail(cnames), groups)
             ELSE InstalledLoop(
                      AvailableLoop(Put(res, cname, [Blank EXCEPT !.egg_name = info]), groups),
                      Tail(cnames), groups)

\* get_status, lines 234-245: the status of one record.
StatusOf(d) ==
    IF d.egg_name # NoEgg
    THEN IF d.a_egg # NoEgg
         THEN IF PyGE(vb_egg(d.egg_name), vb_egg(d.a_egg))
              THEN "up-to-date" ELSE "updateable"
         ELSE "installed"
    ELSE IF d.a_egg # NoEgg THEN "installable" ELSE d.status

\* get_status, lines 203-245: the dict that is computed.
ComputeStatus(cnames, groups) ==
    LET res == InstalledLoop(<<>>, cnames, groups)
    IN  [k \in DOMAIN res |-> [res[k] EXCEPT !.status = StatusOf(res[k])]]

\* "if not x" for a cached list or dict: x is None or empty.
Falsy(cache) == cache = <<>> \/ DOMAIN cache[1] = {}

\* "if not x" for a cached set: x is None or empty.
FalsySet(cache) == cache = <<>> \/ cache[1] = {}

\* get_installed_cnames, lines 195-198: the cache after the call.
InstalledCnamesCache(cache, fresh) == IF Falsy(cache) THEN <<fresh>> ELSE cache

\* Resources.get_installed_cnames
get_installed_cnames ==
    /\ \E fresh \in Perms(enst_cnames) :
          _installed_cnames' = InstalledCnamesCache(_installed_cnames, fresh)
    /\ ret' = <<"get_installed_cnames", _installed_cnames'[1]>>
    /\ UNCHANGED <<enst_cnames, enst_info, chain_groups, _status, _installed>>
    /\ raised' = ""
    /\ UNCHANGED <<evars, lvars>>

\* Resources.get_status
get_status ==
    /\ \E fresh \in Perms(enst_cnames) :
          IF Falsy(_status)
          THEN /\ _installed_cnames' = InstalledCnamesCache(_installed_cnames, fresh)
               /\ _status' = <<ComputeStatus(_installed_cnames'[1], chain_groups)>>
          ELSE UNCHANGED <<_installed_cnames, _status>>
    /\ ret' = <<"get_status", _status'[1]>>
    /\ UNCHANGED <<enst_cnames, enst_info, chain_groups, _installed>>
    /\ raised' = ""
    /\ UNCHANGED <<evars, lvars>>

\* get_installed, lines 251-253: the egg_name of every record that is not
\* installable.
InstalledOf(status) ==
    {status[k].egg_name : k \in {c \in DOMAIN status : status[c].status # "installable"}}

\* Resources.get_installed
get_installed ==
    /\ \E fresh \in Perms(enst_cnames) :
          IF FalsySet(_installed)
          THEN /\ IF Falsy(_status)
                  THEN /\ _installed_cnames' = InstalledCnamesCache(_installed_cnames, fresh)
                       /\ _status' = <<ComputeStatus(_installed_cnames'[1], chain_groups)>>
                  ELSE UNCHANGED <<_installed_cnames, _status>>
               /\ _installed' = <<InstalledOf(_status'[1])>>
          ELSE UNCHANGED <<_installed_cnames, _status, _installed>>
    /\ ret' = <<"get_installed", _installed'[1]>>
    /\ UNCHANGED <<enst_cnames, enst_info, chain_groups>>
    /\ raised' = ""
    /\ UNCHANGED <<evars, lvars>>

NextStatus ==
    \/ clear_cache
    \/ get_installed_cnames
    \/ get_status
    \/ get_installed

SpecStatus == InitStatus /\ [][NextStatus]_vars

\* ------------------------------------------------------------------------
\* Resources: the caches under install, uninstall and a changing environment
\* ------------------------------------------------------------------------

\* The longest list of requirements given to install or uninstall.
MaxReqs == 2

\* The egg of a cname that is installed and offered here.
TheEgg(c) == [name |-> c, version |-> "1.9", build |-> 1]

\* Resources.__init__, lines 51-54, with an Enstaller that has some of these
\* eggs installed and a chain that offers some of them.
InitCache ==
    /\ EnpkgIdle
    /\ LoaderIdle
    /\ enst_cnames \in SUBSET CNames
    /\ enst_info \in [CNames -> {TheEgg(c) : c \in CNames} \cup {NoEgg}]
    /\ \A c \in CNames :
          /\ enst_info[c] # NoEgg => (c \in enst_cnames /\ enst_info[c] = TheEgg(c))
    /\ chain_groups \in [CNames -> {<<>>} \cup {<<<<"repo/", TheEgg(c)>>>> : c \in CNames}]
    /\ \A c \in CNames : chain_groups[c] \in {<<>>, <<<<"repo/", TheEgg(c)>>>>}
    /\ _installed_cnames = <<>>
    /\ _status = <<>>
    /\ _installed = <<>>
    /\ ret = <<>>
    /\ raised = ""

\* What is installed: the cnames and the egg of each.
Env == [cnames |-> enst_cnames, info |-> enst_info, count |-> 0]

\* enst.install(req) for the cname c: the egg the chain offers is put in
\* place, 1 is returned when something was installed and 0 otherwise.
enst_install(env, c) ==
    IF get_dist(chain_groups, c) = NoDist \/ env.info[c] = get_dist(chain_groups, c)[2]
    THEN env
    ELSE [cnames |-> env.cnames \cup {c},
          info |-> [env.info EXCEPT ![c] = get_dist(chain_groups, c)[2]],
          count |-> env.count + 1]

\* enst.remove(req) for the cname c.
enst_remove(env, c) ==
    [cnames |-> env.cnames \ {c},
     info |-> [env.info EXCEPT ![c] = NoEgg],
     count |-> env.count]

\* The loop of install (lines 289-290) over the first n requirements.
RECURSIVE InstallLoop(_, _, _)
InstallLoop(env, reqs, n) ==
    IF n = 0 THEN env
    ELSE enst_install(InstallLoop(env, reqs, n - 1), reqs[n])

\* The loop of uninstall (lines 302-303) over the first n requirements.
RECURSIVE RemoveLoop(_, _, _)
RemoveLoop(env, reqs, n) ==
    IF n = 0 THEN env
    ELSE enst_remove(RemoveLoop(env, reqs, n - 1), reqs[n])

\* Leaving `with self.history:` (lines 288-296 and 301-306): normally when
\* the loop ended, and then clear_cache and the return follow; with the
\* exception of the call that failed otherwise.
AfterHistory(ended, result) ==
    IF ended
    THEN /\ _installed_cnames' = <<>>
         /\ _status' = <<>>
         /\ _installed' = <<>>
         /\ ret' = result
         /\ raised' = ""
    ELSE /\ UNCHANGED <<_installed_cnames, _status, _installed>>
         /\ ret' = <<>>
         /\ raised' = "EggInstallError"

\* Resources.install: enst.install of the requirement n + 1 raises when
\* n < len(reqs).
install ==
    \E reqs \in SeqsUpTo(CNames, MaxReqs) : \E n \in 0..Len(reqs) :
        LET env == InstallLoop(Env, reqs, n)
        IN  /\ enst_cnames' = env.cnames
            /\ enst_info' = env.info
            /\ AfterHistory(n = Len(reqs), <<"install", env.count>>)
            /\ UNCHANGED <<chain_groups, evars, lvars>>

\* Resources.uninstall: enst.remove of the requirement n + 1 raises when
\* n < len(reqs).
uninstall ==
    \E reqs \in SeqsUpTo(CNames, MaxReqs) : \E n \in 0..Len(reqs) :
        LET env == RemoveLoop(Env, reqs, n)
        IN  /\ enst_cnames' = env.cnames
            /\ enst_info' = env.info
            /\ AfterHistory(n = Len(reqs), <<"uninstall", 1>>)
            /\ UNCHANGED <<chain_groups, evars, lvars>>

\* An egg is installed or removed under the prefix by another program
\* (egginst run by hand): Resources is not told.
egginst_outside ==
    /\ \E c \in CNames :
          \/ /\ enst_cnames' = enst_cnames \cup {c}
             /\ enst_info' = [enst_info EXCEPT ![c] = TheEgg(c)]
          \/ /\ enst_cnames' = enst_cnames \ {c}
             /\ enst_info' = [enst_info EXCEPT ![c] = NoEgg]
    /\ UNCHANGED <<chain_groups, _installed_cnames, _status, _installed, ret, raised>>
    /\ UNCHANGED <<evars, lvars>>

NextCache ==
    \/ clear_cache
    \/ get_installed_cnames
    \/ get_status
    \/ get_installed
    \/ install
    \/ uninstall
    \/ egginst_outside

SpecCache == InitCache /\ [][NextCache]_vars

\* ------------------------------------------------------------------------
\* Resources: loading the catalog (load_index, add_product)
\* ------------------------------------------------------------------------

\* self.plat
plat == "linux"

\* The products a root index may list.
ProductNames == {"p", "q"}

\* An egg filename <name>-<version>-<build>.egg.
Egg(n, v, b) == [name |-> n, version |-> v, build |-> b]

\* The cname add_Reqs_to_spec derives from the name: the name in lower case.
Lower(name) == IF name = "Acme" THEN "acme" ELSE name

\* The product indices a server may hold. platform and egg_repos are "" and
\* <<>> for an absent key; eggs is the table as (key, filename) pairs. The
\* third is for another platform, in the fourth a filename stands under a
\* key that is not its cname.
ProductIndexes ==
    { [platform |-> "", egg_repos |-> <<>>, has_eggs |-> TRUE,
       eggs |-> {<<"acme", Egg("Acme", "1.9", 1)>>}],
      [platform |-> "linux", egg_repos |-> <<"eggs">>, has_eggs |-> TRUE,
       eggs |-> {<<"acme", Egg("acme", "1.10", 1)>>, <<"beta", Egg("beta", "1.9", 1)>>}],
      [platform |-> "win", egg_repos |-> <<>>, has_eggs |-> TRUE,
       eggs |-> {<<"beta", Egg("beta", "1.9", 2)>>}],
      [platform |-> "", egg_repos |-> <<>>, has_eggs |-> TRUE,
       eggs |-> {<<"acme", Egg("acme", "1.9", 2)>>, <<"beta", Egg("gamma", "1.9", 1)>>}],
      EmptyIndex }

\* What a connection gives for one GET: no response at all (broken), a
\* status other than 200, a 200 whose body is not JSON, a 200 with an index.
Responses ==
    { [broken |-> TRUE, status |-> 404, json |-> FALSE, content |-> EmptyIndex],
      [broken |-> FALSE, status |-> 404, json |-> FALSE, content |-> EmptyIndex],
      [broken |-> FALSE, status |-> 200, json |-> FALSE, content |-> EmptyIndex] }
    \cup { [broken |-> FALSE, status |-> 200, json |-> TRUE, content |-> c] :
               c \in ProductIndexes }

\* What the server of a product does: it refuses the request on one of the
\* two connections, or it answers both.
Behaviours ==
    [refused : {"conn1", "conn2"}, independent : {CHOOSE r \in Responses : r.broken},
     specific : {CHOOSE r \in Responses : r.broken}]
    \cup [refused : {""}, independent : Responses, specific : Responses]

\* The path of the platform specific index of a product: what the
\* EnstallerResourceIndexError of _read_product_index carries.
SpecificPath(product) == <<"products", product, "index-linux.json">>

\* A call of _read_product_index for the product p that did the events on
\* its connections and returned the index read from the source.
Returns(p, events, source, content) ==
    [product |-> p, events |-> events, raised |-> "", source |-> source,
     content |-> content]

\* A call of _read_product_index that raised.
Raises(p, events, exception) ==
    [product |-> p, events |-> events, raised |-> exception, source |-> "",
     content |-> EmptyIndex]

\* The reading that takes the platform specific index when both are there.
ReadTriedMut(p, b) ==
    IF b.refused = "conn1"
    THEN Raises(p, <<"request1">>, "socket.error")
    ELSE IF b.refused = "conn2"
    THEN Raises(p, <<"request1", "request2">>, "socket.error")
    ELSE LET sent == <<"request1", "request2", "getresponse1">>
             both == sent \o <<"getresponse2", "read2">>
             r1 == b.independent
             r2 == b.specific
         IN  IF r1.broken
             THEN Raises(p, sent, "BadStatusLine")
             ELSE IF r1.status = 200 /\ (r2.broken \/ r2.status # 200)
             THEN IF r1.json
                  THEN Returns(p, sent \o <<"read1">>, "independent", r1.content)
                  ELSE Raises(p, sent \o <<"read1">>, "EnstallerResourceIndexError")
             ELSE IF r2.broken
             THEN Raises(p, sent \o <<"getresponse2">>, "BadStatusLine")
             ELSE IF r2.status = 200
             THEN IF r2.json
                  THEN Returns(p, both, "specific", r2.content)
                  ELSE Raises(p, both, "EnstallerResourceIndexError")
             ELSE Raises(p, both, "EnstallerResourceIndexError")

\* What _read_product_index does on the connections and how it ends, before
\* the finally clause (lines 124-149). A status that is not 200 is logged
\* with the body of the response, which is read for it (line 141).
ReadTried(p, b) ==
    IF b.refused = "conn1"
    THEN Raises(p, <<"request1">>, "socket.error")
    ELSE IF b.refused = "conn2"
    THEN Raises(p, <<"request1", "request2">>, "socket.error")
    ELSE LET sent == <<"request1", "request2", "getresponse1">>
             both == sent \o <<"getresponse2", "read2">>
             r1 == b.independent
             r2 == b.specific
         IN  IF r1.broken
             THEN Raises(p, sent, "BadStatusLine")
             ELSE IF r1.status = 200
             THEN IF r1.json
                  THEN Returns(p, sent \o <<"read1">>, "independent", r1.content)
                  ELSE Raises(p, sent \o <<"read1">>, "EnstallerResourceIndexError")
             ELSE IF r2.broken
             THEN Raises(p, sent \o <<"getresponse2">>, "BadStatusLine")
             ELSE IF r2.status = 200
             THEN IF r2.json
                  THEN Returns(p, both, "specific", r2.content)
                  ELSE Raises(p, both, "EnstallerResourceIndexError")
             ELSE Raises(p, both, "EnstallerResourceIndexError")

\* _read_product_index, lines 101-152: the requests are sent before the try
\* statement, the finally clause closes both connections.
_read_product_index(p, b) ==
    LET t == ReadTried(p, b)
    IN  IF b.refused # "" THEN t
        ELSE [t EXCEPT !.events = t.events \o <<"close1", "close2">>]

\* The catalog: enst.chain.repos, enst.chain.index, enst.chain.groups and
\* self.index.
Catalog ==
    [repos |-> chain_repos, index |-> chain_index, groups |-> chain_groups,
     products |-> index]

\* _add_egg_repos, lines 176-179: the repositories of a product.
ReposOf(url, content) ==
    IF content.egg_repos # <<>>
    THEN [n \in DOMAIN content.egg_repos |-> <<url, content.egg_repos[n]>>]
    ELSE <<<<url, "">>>>

\* The (key, filename) pairs of the sequence stand together by key, as the
\* nested iteration of lines 182-183 gives them.
Grouped(o) ==
    \A a, b, c \in DOMAIN o : (a < b /\ b < c /\ o[a][1] = o[c][1]) => o[b][1] = o[a][1]

\* The orders in which the two iteritems loops may go through a table.
Orders(eggs) == {o \in Perms(eggs) : Grouped(o)}

\* The loops over the table without the assertion of line 190.
RECURSIVE EggLoopMut(_, _, _)
EggLoopMut(cat, o, repos) ==
    IF o = <<>> THEN [cat |-> cat, raised |-> ""]
    ELSE LET cname == Head(o)[1]
             distname == Head(o)[2]
             spec == [cname |-> Lower(distname.name), name |-> distname.name,
                      version |-> distname.version, build |-> distname.build]
             dist == <<repos[1], distname>>
         IN  EggLoopMut(
                 [cat EXCEPT
                     !.index = [d \in DOMAIN cat.index \cup {dist} |->
                                   IF d = dist THEN spec ELSE cat.index[d]],
                     !.groups[cname] = Append(cat.groups[cname], dist)],
                 Tail(o), repos)

\* _add_egg_repos, lines 182-193: the loops over the table, in the order o.
\* The assertion of line 190 ends them with an AssertionError.
RECURSIVE EggLoop(_, _, _)
EggLoop(cat, o, repos) ==
    IF o = <<>> THEN [cat |-> cat, raised |-> ""]
    ELSE LET cname == Head(o)[1]
             distname == Head(o)[2]
             spec == [cname |-> Lower(distname.name), name |-> distname.name,
                      version |-> distname.version, build |-> distname.build]
             dist == <<repos[1], distname>>
         IN  IF spec.cname # cname
             THEN [cat |-> cat, raised |-> "AssertionError"]
             ELSE EggLoop(
                      [cat EXCEPT
                          !.index = [d \in DOMAIN cat.index \cup {dist} |->
                                        IF d = dist THEN spec ELSE cat.index[d]],
                          !.groups[cname] = Append(cat.groups[cname], dist)],
                      Tail(o), repos)

\* _add_egg_repos, lines 175-193
_add_egg_repos(cat, url, content, o) ==
    EggLoop([cat EXCEPT !.repos = cat.repos \o ReposOf(url, content)],
            o, ReposOf(url, content))

\* add_product with the platform compared after the eggs are merged.
add_productMut(cat, p, b, o) ==
    LET read == _read_product_index(p, b)
        product == [product |-> p, index_url |-> read.source,
                    platform |-> read.content.platform]
        added == IF read.content.has_eggs
                 THEN _add_egg_repos(cat, p, read.content, o)
                 ELSE [cat |-> cat, raised |-> ""]
    IN  IF read.raised # "" THEN [cat |-> cat, raised |-> read.raised]
        ELSE IF added.raised # "" THEN added
        ELSE IF product.platform # "" /\ product.platform # plat
        THEN [cat |-> added.cat, raised |-> "Exception"]
        ELSE [cat |-> [added.cat EXCEPT !.products = Append(@, product)],
              raised |-> ""]

\* add_product, lines 154-173, for the product named p whose server behaves
\* as b: the catalog after the call and the exception it ends with.
add_product(cat, p, b, o) ==
    LET read == _read_product_index(p, b)
        product == [product |-> p, index_url |-> read.source,
                    platform |-> read.content.platform]
    IN  IF read.raised # "" THEN [cat |-> cat, raised |-> read.raised]
        ELSE IF product.platform # "" /\ product.platform # plat
        THEN [cat |-> cat, raised |-> "Exception"]
        ELSE LET added == IF read.content.has_eggs
                          THEN _add_egg_repos(cat, p, read.content, o)
                          ELSE [cat |-> cat, raised |-> ""]
             IN  IF added.raised # "" THEN added
                 ELSE [cat |-> [added.cat EXCEPT !.products = Append(@, product)],
                       raised |-> ""]

\* The index servers: a root index that lists some products, or cannot be
\* read, and the behaviour of the server of every product listed.
Servers ==
    UNION { [root : {"ok"}, products : {l},
             sub : [{l[n] : n \in DOMAIN l} -> Behaviours]] :
               l \in UNION {Perms(S) : S \in SUBSET ProductNames} }
    \cup [root : {"HTTPError", "URLError", "ValueError"}, products : {<<>>},
          sub : {EmptyDict}]

\* Resources.__init__ without urls and index_root, and the servers that
\* load_index is going to ask.
InitLoad ==
    /\ EnpkgIdle
    /\ ResourcesIdle
    /\ server \in Servers
    /\ lpc = "init"
    /\ todo = <<>>
    /\ failed_index_urls = <<>>
    /\ index = <<>>
    /\ chain_repos = <<>>
    /\ chain_index = EmptyDict
    /\ http = NoRead
    /\ message = <<>>

\* load_index, lines 76-84: the root index is read. An HTTPError is logged
\* and the method returns; any other error of the read leaves the method.
load_index ==
    /\ lpc = "init"
    /\ IF server.root = "ok"
       THEN /\ todo' = server.products
            /\ lpc' = IF server.products = <<>> THEN "done" ELSE "loading"
            /\ raised' = ""
       ELSE /\ todo' = <<>>
            /\ lpc' = "done"
            /\ raised' = IF server.root = "HTTPError" THEN "" ELSE server.root
    /\ failed_index_urls' = <<>>
    /\ message' = <<>>
    /\ ret' = <<>>
    /\ UNCHANGED <<server, index, chain_repos, chain_index, http>>
    /\ UNCHANGED <<enst_cnames, enst_info, chain_groups, _installed_cnames, _status, _installed>>
    /\ UNCHANGED evars

\* load_index, lines 85-99: one turn of the loop over the products, and the
\* end of the method after the last one.
load_index_loop ==
    /\ lpc = "loading"
    /\ LET p == Head(todo)
           b == server.sub[p]
       IN  \E o \in Orders(_read_product_index(p, b).content.eggs) :
             LET r == add_product(Catalog, p, b, o)
                 failed == IF r.raised = "EnstallerResourceIndexError"
                           THEN Append(failed_index_urls, SpecificPath(p))
                           ELSE failed_index_urls
                 passes == r.raised \notin {"", "EnstallerResourceIndexError"}
                 ended == ~passes /\ Tail(todo) = <<>>
             IN  /\ chain_repos' = r.cat.repos
                 /\ chain_index' = r.cat.index
                 /\ chain_groups' = r.cat.groups
                 /\ index' = r.cat.products
                 /\ http' = _read_product_index(p, b)
                 /\ failed_index_urls' = failed
                 /\ todo' = IF passes THEN todo ELSE Tail(todo)
                 /\ lpc' = IF passes \/ ended THEN "done" ELSE "loading"
                 /\ raised' = IF passes THEN r.raised
                               ELSE IF ended /\ failed # <<>>
                                    THEN "EnstallerResourceIndexError" ELSE ""
                 /\ message' = IF ended /\ failed # <<>> THEN failed ELSE <<>>
    /\ ret' = <<>>
    /\ UNCHANGED <<server, enst_cnames, enst_info, _installed_cnames, _status, _installed>>
    /\ UNCHANGED evars

NextLoad ==
    \/ load_index
    \/ load_index_loop

SpecLoad == InitLoad /\ [][NextLoad]_vars

\* ------------------------------------------------------------------------
\* Properties of the orchestrator (enpkg main)
\* ------------------------------------------------------------------------

\* The run is in install mode and has computed the installed sets and exclude.
InRun == dists # <<>> /\ pc # "installed"

\* The install-mode run has completed its three phases.
Finished == InRun /\ pc \in {"done", "exit"}

Targets == {filename_dist(dists[k]) : k \in 1..Len(dists)}

LastTarget == filename_dist(dists[Len(dists)])

all_inst == sys_inst \cup prefix_inst

OnePerCname(S) == \A x, y \in S : cname_eggname(x) = cname_eggname(y) => x = y

TargetsOnePerCname ==
    \A k, m \in 1..Len(dists) :
        k # m => cname_eggname(filename_dist(dists[k])) # cname_eggname(filename_dist(dists[m]))

ActsOfKind(kind) == SelectSeq(acts, LAMBDA a : a.kind = kind)

FnsOf(seq) == [k \in 1..Len(seq) |-> seq[k].fn]

\* C1: with neither force nor forceall, no fetch, removal or install is
\* emitted for a target filename that is already installed (in sys.prefix or
\* in the prefix).
C1_InstalledUntouched ==
    (InRun /\ ~opts.force /\ ~opts.forceall) =>
        \A k \in 1..Len(acts) : acts[k].fn \notin (Targets \cap all_inst)

\* C2 (as stated): the removal phase never emits a removal for a filename
\* that is an element of sys_inst (primaryInstalled).
C2_NoPrimaryRemoved ==
    InRun => \A k \in 1..Len(acts) :
                acts[k].kind = "remove" => acts[k].fn \notin sys_inst

\* C2 (amended): the removal phase never emits a removal on behalf of a
\* target whose filename is in sys_inst; every removal it emits is for a
\* filename of prefix_inst with the canonical name of a target that is not
\* in sys_inst.
C2_RemovalOnlyForTargetsNotInPrimary ==
    InRun => \A k \in 1..Len(acts) :
                acts[k].kind = "remove" =>
                    LET target == filename_dist(dists[acts[k].by])
                    IN  /\ target \notin sys_inst
                        /\ acts[k].fn \in prefix_inst
                        /\ cname_eggname(acts[k].fn) = cname_eggname(target)

C2_Witness ==
    /\ Finished
    /\ \E k \in 1..Len(acts) : acts[k].kind = "remove" /\ acts[k].fn \in sys_inst
    /\ \E k \in 1..Len(dists) : filename_dist(dists[k]) \in sys_inst

\* C3: replace-not-stack: when the prefix held at most one egg per canonical
\* name and the target list holds at most one per canonical name, the prefix
\* holds at most one egg per canonical name after a completed non-dry run.
C3_ReplaceNotStack ==
    (Finished /\ ~opts.dry_run /\ OnePerCname(disk0[prefix]) /\ TargetsOnePerCname)
        => OnePerCname(disk[prefix])

\* No fetch and no install acted on the filename fn.
NotFetchedNorInstalled(fn) ==
    \A k \in 1..Len(acts) : acts[k].kind \in {"fetch", "install"} => acts[k].fn # fn

\* C4 (as stated): when the last target is already installed, exclude
\* contains it and neither fetch nor install acts on it, unless forceall.
C4_ResolvedExcludedUnlessForceAll ==
    (InRun /\ LastTarget \in all_inst /\ ~opts.forceall) =>
        (LastTarget \in exclude /\ NotFetchedNorInstalled(LastTarget))

\* C4 (amended): when the last target is already installed, exclude contains
\* it and neither fetch nor install acts on it, unless force or forceall.
C4_ResolvedExcludedUnlessForced ==
    (InRun /\ LastTarget \in all_inst /\ ~opts.forceall /\ ~opts.force) =>
        (LastTarget \in exclude /\ NotFetchedNorInstalled(LastTarget))

C4_Witness ==
    /\ Finished
    /\ LastTarget \in all_inst
    /\ ~opts.forceall /\ ~opts.force
    /\ Len(ActsOfKind("install")) > 0

\* C5: forceall gives an empty exclude whatever force is (and then every
\* target is fetched and installed); force alone gives all_inst minus the
\* last target; neither flag gives all_inst.
C5_ExcludeByFlags ==
    InRun =>
        /\ opts.forceall => exclude = {}
        /\ (opts.forceall /\ Finished) =>
               /\ FnsOf(ActsOfKind("fetch")) = [k \in 1..Len(dists) |-> filename_dist(dists[k])]
               /\ FnsOf(ActsOfKind("install")) = [k \in 1..Len(dists) |-> filename_dist(dists[k])]
        /\ (opts.force /\ ~opts.forceall) => exclude = all_inst \ {LastTarget}
        /\ (~opts.force /\ ~opts.forceall) => exclude = all_inst

\* C6: the installs are the targets not in exclude, in the order of the
\* target list; a removal triggered by a later target is emitted before a
\* removal triggered by an earlier target.
C6_InstallForwardRemoveReverse ==
    /\ Finished =>
          FnsOf(ActsOfKind("install")) =
              FnsOf([k \in 1..Len(SelectSeq(dists, LAMBDA d : d[2] \notin exclude)) |->
                       [fn |-> SelectSeq(dists, LAMBDA d : d[2] \notin exclude)[k][2]]])
    /\ InRun =>
          \A k, m \in 1..Len(acts) :
              (acts[k].kind = "remove" /\ acts[m].kind = "remove" /\ acts[k].by > acts[m].by)
                  => k < m

C6_Witness ==
    /\ Finished
    /\ Len(ActsOfKind("install")) >= 2
    /\ \E k, m \in 1..Len(acts) :
          acts[k].kind = "remove" /\ acts[m].kind = "remove" /\ acts[k].by > acts[m].by

Rank(kind) ==
    CASE kind = "fetch" -> 1
      [] kind = "remove" -> 2
      [] kind = "install" -> 3

\* C7: every fetch precedes every removal and every removal precedes every
\* install.
C7_PhaseBarrier ==
    \A k, m \in 1..Len(acts) : k < m => Rank(acts[k].kind) <= Rank(acts[m].kind)

C7_Witness ==
    /\ Finished
    /\ Len(ActsOfKind("fetch")) > 0
    /\ Len(ActsOfKind("remove")) > 0
    /\ Len(ActsOfKind("install")) > 0

Acted == acts # <<>> \/ calls # <<>> \/ log # <<>>

\* C8: nothing is fetched, removed or installed unless the write check
\* succeeded and, in install mode, install_order returned a list; a failed
\* write check exits with status 1, an empty resolution with status 0.
C8_PreflightBeforeAnyAction ==
    /\ Acted => (writable /\ (opts.remove \/ dists # <<>>))
    /\ (pc \notin {"main", "check_write"} /\ ~writable) =>
           (pc = "exit" /\ exit = <<1>> /\ ~Acted)
    /\ (pc \notin {"main", "check_write", "get_dists"} /\ writable
            /\ ~opts.remove /\ dists = <<>>) =>
           (pc = "exit" /\ exit = <<0>> /\ ~Acted)

C8_Witness == pc = "exit" /\ ~writable /\ exit = <<1>> /\ ~Acted /\ disk0[prefix] # {}

\* The plan of a run, computed from its inputs only (not from dry_run).
PlanFetch(ds, ex) ==
    LET sel == SelectSeq(ds, LAMBDA d : d[2] \notin ex)
    IN  [k \in 1..Len(sel) |-> [kind |-> "fetch", fn |-> sel[k][2]]]

PlanInstall(ds, ex) ==
    LET sel == SelectSeq(ds, LAMBDA d : d[2] \notin ex)
    IN  [k \in 1..Len(sel) |-> [kind |-> "install", fn |-> sel[k][2]]]

RECURSIVE PlanRemove(_, _, _, _)
PlanRemove(ds, k, s_inst, seq) ==
    IF k = 0 THEN <<>>
    ELSE LET hit == IF ds[k][2] \in s_inst THEN <<>>
                    ELSE SelectSeq(seq, LAMBDA f : cname_eggname(f) = cname_eggname(ds[k][2]))
         IN  [n \in 1..Len(hit) |-> [kind |-> "remove", fn |-> hit[n]]]
                 \o PlanRemove(ds, k - 1, s_inst, seq)

Plan ==
    LET s == disk0["sys"]
        p == IF prefix = "sys" THEN s ELSE disk0[prefix]
        ex == IF opts.force THEN (s \cup p) \ {dists[Len(dists)][2]}
              ELSE IF opts.forceall THEN {} ELSE s \cup p
    IN  PlanFetch(dists, ex) \o PlanRemove(dists, Len(dists), s, order)
            \o PlanInstall(dists, ex)

Word(kind) ==
    CASE kind = "fetch" -> "downloading"
      [] kind = "remove" -> "removing"
      [] kind = "install" -> "installing"

\* C9: a dry run computes and logs the same actions in the same order as a
\* real run (the plan depends on the inputs only), calls no external
\* primitive and leaves the installed sets unchanged; a real run calls the
\* primitive of every action of the plan.
C9_DryRunSamePlanNoEffect ==
    pc = "done" =>
        /\ dists # <<>> =>
               [k \in 1..Len(acts) |-> [kind |-> acts[k].kind, fn |-> acts[k].fn]] = Plan
        /\ opts.dry_run =>
               /\ calls = <<>>
               /\ disk = disk0
               /\ log = [k \in 1..Len(acts) |-> [action |-> Word(acts[k].kind), fn |-> acts[k].fn]]
        /\ ~opts.dry_run =>
               calls = [k \in 1..Len(acts) |-> [prim |-> acts[k].kind, fn |-> acts[k].fn]]

C9_Witness ==
    /\ pc = "done"
    /\ opts.dry_run
    /\ dists # <<>>
    /\ \E k, m, n \in 1..Len(acts) :
          acts[k].kind = "fetch" /\ acts[m].kind = "remove" /\ acts[n].kind = "install"

\* ------------------------------------------------------------------------
\* Properties of the status engine (Resources)
\* ------------------------------------------------------------------------

\* The status get_status gives to the cname c, "absent" for no record.
StatusGiven(c) ==
    IF c \in DOMAIN _status[1] THEN _status[1][c].status ELSE "absent"

\* The status of the pair (installed distribution, best available one).
StatusDue(inst, avail) ==
    IF inst = NoEgg
    THEN IF avail = NoEgg THEN "absent" ELSE "installable"
    ELSE IF avail = NoEgg THEN "installed"
         ELSE IF TupleGE(vb_egg(inst)[1], vb_egg(avail)[1])
              THEN "up-to-date" ELSE "updateable"

\* C10: the status get_status gives to a canonical name is a function of its
\* installed distribution and its best available distribution only:
\* (none, none) no record, (none, X) installable, (Y, none) installed,
\* (Y, X) up-to-date when X <= Y and updateable when X > Y, whatever else is
\* installed, an empty installed set included.
C10_StatusTotalFunction ==
    _status # <<>> =>
        \A c \in CNames :
            (enst_info[c] = NoEgg \/ vb_egg(enst_info[c]) # <<>>) =>
                StatusGiven(c) = StatusDue(enst_info[c], get_dist(chain_groups, c)[2])

\* The installed cnames get_status went through.
Listed(c) == \E n \in DOMAIN _installed_cnames[1] : _installed_cnames[1][n] = c

\* The installed filename of c is one whose version cannot be compared.
Incomparable(c) == enst_info[c] # NoEgg /\ vb_egg(enst_info[c]) = <<>>

\* C11: an installed distribution whose filename fails version parsing (a
\* version verlib rejects, or a filename without its three parts) gets the
\* status 'installed', whether or not a distribution is available for its
\* canonical name.
C11_IncomparableInstalledIsInstalled ==
    _status # <<>> =>
        \A c \in CNames :
            (Listed(c) /\ Incomparable(c)) => StatusGiven(c) = "installed"

\* The version of the distribution can be compared.
Comparable(dist) == vb_egg(dist[2]) # <<>>

\* The groups without the malformed entries of the cnames other than c.
WithoutMalformed(groups, c) ==
    [k \in CNames |-> IF k = c THEN groups[k] ELSE SelectSeq(groups[k], Comparable)]

\* The record of c in a result of get_status, <<>> for none.
Record(res, c) == IF c \in DOMAIN res THEN <<res[c]>> ELSE <<>>

C13_CachedUntilInvalidated ==
    [][ /\ (_status # <<>> /\ get_status) =>
               (_status' = _status /\ ret' = <<"get_status", _status[1]>>)
        /\ (_installed_cnames # <<>> /\ get_installed_cnames) =>
               (_installed_cnames' = _installed_cnames
                /\ ret' = <<"get_installed_cnames", _installed_cnames[1]>>)
        /\ (_installed # <<>> /\ get_installed) =>
               (_installed' = _installed /\ ret' = <<"get_installed", _installed[1]>>) ]_vars

\* All three caches are None.
Invalidated == _installed_cnames = <<>> /\ _status = <<>> /\ _installed = <<>>

\* C20: every call of install and of uninstall leaves the three caches
\* invalidated, however the call ends.
C20_InstallAlwaysInvalidates ==
    [][ (install \/ uninstall) => Invalidated' ]_vars

\* ------------------------------------------------------------------------
\* Properties of the catalog loading (Resources)
\* ------------------------------------------------------------------------

\* The products the root index lists.
Listed_products == {server.products[n] : n \in DOMAIN server.products}

\* How reading the index of the listed product p ends.
ReadOf(p) == _read_product_index(p, server.sub[p])

\* Neither index of the product p can be read.
Unreadable(p) == ReadOf(p).raised # ""

\* The index of p is read and is for another platform.
PlatformMismatch(p) ==
    ~Unreadable(p) /\ ReadOf(p).content.platform \notin {"", plat}

\* The index of p is read and has a filename under a key that is not its cname.
CnameMismatch(p) ==
    ~Unreadable(p) /\ \E e \in ReadOf(p).content.eggs : Lower(e[2].name) # e[1]

\* No listed product has an index that is fatal for the load.
NoFatal == \A p \in Listed_products : ~PlatformMismatch(p) /\ ~CnameMismatch(p)

\* The paths of the products that cannot be read, in the order of the root index.
FailedPaths ==
    LET bad == SelectSeq(server.products, Unreadable)
    IN  [n \in DOMAIN bad |-> SpecificPath(bad[n])]

\* The product p is in self.index.
Loaded(p) == \E n \in DOMAIN index : index[n].product = p

\* C14: when the index of a product cannot be read, load_index goes on with
\* the remaining products, every product that can be read is in the catalog
\* afterwards, and the call ends with one EnstallerResourceIndexError that
\* lists every product that failed.
C14_LoadContinuesAndAggregates ==
    (lpc = "done" /\ server.root = "ok" /\ NoFatal
        /\ \E p \in Listed_products : Unreadable(p)) =>
        /\ raised = "EnstallerResourceIndexError"
        /\ message = FailedPaths
        /\ \A p \in Listed_products : ~Unreadable(p) => Loaded(p)

\* The sources that could not be read during the load: the root index and
\* the indices of the products.
FailingSources ==
    (IF server.root # "ok" THEN {<<"products">>} ELSE {})
    \cup {SpecificPath(p) : p \in {q \in Listed_products : Unreadable(q)}}

\* C15: a load_index call during which the root index or the index of a
\* product cannot be read never returns normally: it ends with a single
\* error that lists every source that failed.
C15_EveryFailureSurfaced ==
    (lpc = "done" /\ NoFatal /\ FailingSources # {}) =>
        /\ raised = "EnstallerResourceIndexError"
        /\ {message[n] : n \in DOMAIN message} = FailingSources

\* The catalog holds something of the product p: a repository, an entry of
\* the index, a distribution in a group or the product itself.
Contributed(p) ==
    \/ \E n \in DOMAIN chain_repos : chain_repos[n][1] = p
    \/ \E d \in DOMAIN chain_index : d[1][1] = p
    \/ \E c \in CNames : \E n \in DOMAIN chain_groups[c] : chain_groups[c][n][1][1] = p
    \/ Loaded(p)

\* C16: after a product whose table has a filename under a key that is not
\* its cname, the catalog holds nothing of that product.
C16_MismatchLeavesNothing ==
    (lpc = "done" /\ raised = "AssertionError") => ~Contributed(Head(todo))

\* C17: a product index for another platform makes add_product raise at
\* once: the error is not put on the list of failed indices, load_index ends
\* with it without going to the later products, and the index, the groups,
\* the repositories and the product list are as before the call.
C17_PlatformMismatchNoSideEffect ==
    [][ (lpc = "loading" /\ PlatformMismatch(Head(todo))) =>
            /\ raised' = "Exception"
            /\ lpc' = "done"
            /\ todo' = todo
            /\ failed_index_urls' = failed_index_urls
            /\ Catalog' = Catalog ]_vars

\* load_index ended at a product for another platform after it had loaded
\* a product with eggs.
C17_Witness ==
    /\ lpc = "done"
    /\ raised = "Exception"
    /\ PlatformMismatch(Head(todo))
    /\ index # <<>>
    /\ chain_repos # <<>>

\* The response arrived with status 200.
Is200(r) == ~r.broken /\ r.status = 200

\* The response arrived with another status.
Not200(r) == ~r.broken /\ r.status # 200

\* The event is among those of the last _read_product_index.
Did(event) == \E n \in DOMAIN http.events : http.events[n] = event

\* No response is awaited before both requests are sent.
RequestsFirst ==
    \A n \in DOMAIN http.events :
        http.events[n] \in {"getresponse1", "getresponse2"} =>
            (n > 2 /\ http.events[1] = "request1" /\ http.events[2] = "request2")

\* C18 as stated: both requests are sent before a response is awaited; with
\* status 200 on the platform independent index its content is the result
\* and the platform specific response is never read; the platform specific
\* content is the result exactly when the independent status is not 200 and
\* the specific one is 200; with neither 200 the call raises
\* EnstallerResourceIndexError.
C18_DualFetchByStatus ==
    http.product # "" =>
        LET b == server.sub[http.product]
        IN  /\ RequestsFirst
            /\ (b.refused = "" /\ Is200(b.independent)) =>
                   /\ http.source = "independent"
                   /\ http.content = b.independent.content
                   /\ ~Did("getresponse2") /\ ~Did("read2")
            /\ http.source = "specific" <=>
                   (b.refused = "" /\ Not200(b.independent) /\ Is200(b.specific))
            /\ http.source = "specific" => http.content = b.specific.content
            /\ (b.refused = "" /\ Not200(b.independent) /\ Not200(b.specific)) =>
                   http.raised = "EnstallerResourceIndexError"

\* C18 amended: the content is the result only when the body read is JSON;
\* a body that is not JSON ends the call with EnstallerResourceIndexError,
\* and with status 200 on the independent index the specific response is
\* not read in that case either.
C18_DualFetchByStatusAndJson ==
    http.product # "" =>
        LET b == server.sub[http.product]
        IN  /\ RequestsFirst
            /\ (b.refused = "" /\ Is200(b.independent)) =>
                   /\ ~Did("getresponse2") /\ ~Did("read2")
                   /\ IF b.independent.json
                      THEN /\ http.source = "independent"
                           /\ http.content = b.independent.content
                      ELSE http.raised = "EnstallerResourceIndexError"
            /\ http.source = "specific" <=>
                   (b.refused = "" /\ Not200(b.independent) /\ Is200(b.specific)
                       /\ b.specific.json)
            /\ http.source = "specific" => http.content = b.specific.content
            /\ (b.refused = "" /\ Not200(b.independent) /\ Is200(b.specific)
                    /\ ~b.specific.json) =>
                   http.raised = "EnstallerResourceIndexError"
            /\ (b.refused = "" /\ Not200(b.independent) /\ Not200(b.specific)) =>
                   http.raised = "EnstallerResourceIndexError"

\* Both indices answered 200 with JSON and the independent one was taken.
C18_Witness ==
    /\ http.product # ""
    /\ server.sub[http.product].refused = ""
    /\ Is200(server.sub[http.product].independent)
    /\ Is200(server.sub[http.product].specific)
    /\ server.sub[http.product].specific.json
    /\ http.source = "independent"
    /\ http.content # server.sub[http.product].specific.content

\* C19: every distribution in a group has an entry in the index of the
\* chain, and the cname of that entry is the key of the group; also after a
\* load that ended with an error.
C19_GroupsInLockStep ==
    \A c \in CNames : \A n \in DOMAIN chain_groups[c] :
        /\ chain_groups[c][n] \in DOMAIN chain_index
        /\ chain_index[chain_groups[c][n]].cname = c

\* A load ended at a filename under the wrong key after entries of the same
\* product had been merged.
C19_Witness ==
    /\ lpc = "done"
    /\ raised = "AssertionError"
    /\ \E c \in CNames : \E n \in DOMAIN chain_groups[c] :
           chain_groups[c][n][1][1] = Head(todo)

\* C21: when _read_product_index has returned or raised, both connections
\* are closed, and nothing is done on them after that: on success with the
\* first or the second response, when both statuses fail, when the body is
\* not JSON and when sending a request fails.
C21_BothConnectionsClosed ==
    http.product # "" =>
        /\ Len(http.events) >= 2
        /\ {http.events[Len(http.events) - 1], http.events[Len(http.events)]}
               = {"close1", "close2"}

\* What is installed under the prefix or under sys.prefix now.
InstalledNow == disk[prefix] \cup disk["sys"]

\* C22: after a completed run that is not a dry run, every distribution of
\* the target list is installed, under the prefix or under sys.prefix,
\* whatever the flags and whatever was installed before; a target that was
\* installed under the prefix only is installed still.
C22_TargetsInstalledAfterRun ==
    (Finished /\ TargetsOnePerCname /\ ~opts.dry_run) => Targets \subseteq InstalledNow

====
